---- MODULE Spec2Model ----
(***************************************************************************)
(* pt-backend: the verifiable-ingestion core and its credential handling.  *)
(*                                                                         *)
(* The process (main.rs) starts, then serves requests.  Every request is   *)
(* an independent async task; a task advances one step per store or ledger *)
(* call it awaits, so the steps of different tasks interleave freely.      *)
(* A task leaves the model when its handler returns; the last one answered *)
(* is kept, with its response.                                             *)
(* The relational store (users, sensors, readings) and the ledger RPC are  *)
(* external: every call to them may fail.                                  *)
(*                                                                         *)
(* Optional values (Rust Option) are sequences of length 0 or 1.           *)
(* Times are seconds since the epoch; co2 and temperature are thousandths. *)
(***************************************************************************)
EXTENDS Integers, Sequences, FiniteSets, TLC

VARIABLES
    phase,      \* "boot" | "serving" | "failed": position of main
    env,        \* what the process is started with (environment, wallet)
    now,        \* the clock (Utc::now), in seconds
    users,      \* table users: username -> <<>> or <<stored password hash>>
    sensors,    \* table sensors: id -> <<>> or <<owner username>>
    readings,   \* table readings: sequence of rows, in insertion order
    ledger,     \* transactions the ledger RPC accepted, in order
    issued,     \* tokens create_jwt has produced
    nextSalt,   \* the salts calculate_hash has drawn so far (fresh per call)
    tasks,      \* the requests in flight, in order of arrival
    last,       \* <<>> or <<the request answered most recently>>
    received,   \* the number of requests received so far
    accepted    \* the number of ingestions answered with success so far

vars == <<phase, env, now, users, sensors, readings, ledger, issued, nextSalt,
          tasks, last, received, accepted>>

-----------------------------------------------------------------------------
(* Bounds of the model *)

MaxTasks == 3
MaxDays == 19
InitRows == 2

(* Program constants *)

TokenTtl == 3600
Leeway == 60
MinBalance == 1000000
DayS == 86400

Users == {"alice", "bob"}
Passwords == {"pw1", "pw2"}
SensorIds == {7, 8}
Co2Values == {-1000, 5000}
TempValues == {21300}
TsValues == {0}
RangeInputs == {"none"}
TimeRanges == {"none", "24h", "7d", "30d", "90d", "all"}
Balances == {MinBalance, MinBalance + 1}
Instants == <<0, TokenTtl + Leeway, TokenTtl + Leeway + 1>>
JWT_SECRET == "secret"

None == <<>>
Some(x) == <<x>>

-----------------------------------------------------------------------------
(* http.rs: the JSON envelope.  Json(..).into_response() answers HTTP 200   *)
(* with the envelope's own status field; only the middleware answers with a *)
(* bare HTTP status.                                                        *)

HttpResponse(status, msg, body) ==
    [http |-> 200, status |-> status, error_msg |-> msg, body |-> body]

success == HttpResponse(200, None, None)
success_data(data) == HttpResponse(200, None, Some(data))
bad_request(msg) == HttpResponse(400, Some(msg), None)
unauthorized(msg) == HttpResponse(401, Some(msg), None)
forbidden(msg) == HttpResponse(403, Some(msg), None)
conflicts(msg) == HttpResponse(409, Some(msg), None)
internal_error == HttpResponse(500, Some("Internal server error"), None)

(* Err(StatusCode::UNAUTHORIZED) of the middleware: no envelope *)
UNAUTHORIZED == [http |-> 401, status |-> 0, error_msg |-> None, body |-> None]

LoginResponse(token, form) ==
    [token |-> token, username |-> form.username, role |-> "user"]

(* faulty variant: "all" reaches back a year *)
to_cutoff_time_all_year(range, t) ==
    CASE range = "none" -> t - 1 * DayS
      [] range = "24h"  -> t - 1 * DayS
      [] range = "7d"   -> t - 7 * DayS
      [] range = "30d"  -> t - 30 * DayS
      [] range = "90d"  -> t - 90 * DayS
      [] range = "all"  -> t - 365 * DayS

(* TimeRangeQuery::to_cutoff_time, evaluated at time t; the range is the   *)
(* query's selector as serde names it, "none" when the query has none      *)
to_cutoff_time(range, t) ==
    CASE range = "none" -> t - 1 * DayS
      [] range = "24h"  -> t - 1 * DayS
      [] range = "7d"   -> t - 7 * DayS
      [] range = "30d"  -> t - 30 * DayS
      [] range = "90d"  -> t - 90 * DayS
      [] range = "all"  -> t - 180 * DayS

-----------------------------------------------------------------------------
(* crypto.rs *)

(* Argon2 PHC string, abstracted to the salt and the password it commits to *)
calculate_hash(password, salt) == [wellformed |-> TRUE, salt |-> salt, pw |-> password]

(* faulty variant: a stored hash that does not parse is compared anyway *)
verify_hash_unparsed(password, stored_hash) == stored_hash.pw = password

(* PasswordHash::new fails on a malformed stored hash: false *)
verify_hash(password, stored_hash) ==
    IF ~stored_hash.wellformed THEN FALSE
    ELSE stored_hash.pw = password

(* {:.2} of a value held in thousandths: the sign, which is printed for   *)
(* every negative value (-0.004 gives "-0.00"), and the digits of the     *)
(* nearest hundredth.  The model's values are never halfway between two   *)
(* hundredths.                                                            *)
Fmt2(v) ==
    [neg |-> v < 0, digits |-> ((IF v < 0 THEN -v ELSE v) + 5) \div 10]

(* faulty variant: co2 and temperature are encoded in full *)
reading_hash_unrounded(reading) ==
    <<"sensor", reading.sensor_id, "ts", reading.timestamp,
      "co2", [neg |-> reading.co2 < 0, digits |-> reading.co2],
      "temp", [neg |-> reading.temperature < 0, digits |-> reading.temperature]>>

(* blake3 of the canonical string, abstracted to the string's fields; the  *)
(* field timestamp of a reading is DateTime::timestamp(), its whole        *)
(* seconds, and the rest of the instant (subsec, where a reading has it)   *)
(* is not encoded                                                          *)
reading_hash(reading) ==
    <<"sensor", reading.sensor_id, "ts", reading.timestamp,
      "co2", Fmt2(reading.co2), "temp", Fmt2(reading.temperature)>>

-----------------------------------------------------------------------------
(* auth.rs *)

Claims(sub, exp) == [sub |-> sub, exp |-> exp, role |-> "user"]

(* faulty variant: the token expires when it is issued, and for good *)
create_jwt_no_ttl(username, t) ==
    [claims |-> Claims(username, t - Leeway - 1), key |-> JWT_SECRET]

(* a signed token: its claims and the secret that signed it *)
create_jwt(username, t) ==
    [claims |-> Claims(username, t + TokenTtl), key |-> JWT_SECRET]

(* faulty variant: exp is checked with no leeway *)
decode_no_leeway(token, secret, t) ==
    IF token.key /= secret THEN None
    ELSE IF token.claims.exp < t THEN None
    ELSE Some(token.claims)

(* faulty variant: the signature is not checked *)
decode_no_signature(token, secret, t) ==
    IF token.claims.exp < t - Leeway THEN None
    ELSE Some(token.claims)

(* faulty variant: exp is not checked *)
decode_no_exp(token, secret, t) ==
    IF token.key /= secret THEN None
    ELSE Some(token.claims)

(* jsonwebtoken::decode with Validation::default(): the signature must be  *)
(* made with the given secret (HS256), and exp is validated with the       *)
(* default leeway of 60 seconds: a token is expired once exp < now - 60.   *)
decode(token, secret, t) ==
    IF token.key /= secret THEN None
    ELSE IF token.claims.exp < t - Leeway THEN None
    ELSE Some(token.claims)

NoHeader == [scheme |-> "none", token |-> None]
BasicHeader == [scheme |-> "basic", token |-> None]
MalformedBearer == [scheme |-> "bearer", token |-> None]
Bearer(token) == [scheme |-> "bearer", token |-> Some(token)]

(* the token-checking part of verify_jwt: the claims, or None for 401 *)
verify_token(header, t) ==
    IF header.scheme = "none" THEN None
    ELSE IF header.scheme /= "bearer" THEN None
    ELSE IF header.token = None THEN None
    ELSE decode(header.token[1], JWT_SECRET, t)

-----------------------------------------------------------------------------
(* db.rs: the queries, as functions of the tables *)

(* faulty variant: the CO2 check is left out *)
validate_reading_unchecked(payload) == None

validate_reading(payload) ==
    IF payload.co2 < 0 THEN Some("Invalid CO2 value") ELSE None

(* faulty variant: every sensor id counts as registered *)
sensor_exists_unchecked(sensor_id) == TRUE

sensor_exists(sensor_id) ==
    sensor_id \in DOMAIN sensors /\ sensors[sensor_id] /= None

(* faulty variant: any registered sensor counts as owned *)
owns_sensor_any_user(username, sensor_id) ==
    /\ sensor_id \in DOMAIN sensors
    /\ sensors[sensor_id] /= None
    /\ users[username] /= None

owns_sensor(username, sensor_id) ==
    /\ sensor_id \in DOMAIN sensors
    /\ sensors[sensor_id] /= None
    /\ sensors[sensor_id][1] = username
    /\ users[username] /= None

Row(id, payload) ==
    [id |-> id, sensor_id |-> payload.sensor_id, timestamp |-> payload.timestamp,
     co2 |-> payload.co2, temperature |-> payload.temperature]

(* faulty variant: the joins to sensors and users are left out *)
fetch_rows_no_owner(sensor_id, cutoff, username) ==
    {readings[i] : i \in {j \in 1..Len(readings) :
        /\ readings[j].sensor_id = sensor_id
        /\ readings[j].timestamp >= cutoff}}

(* faulty variant: the timestamp condition is left out *)
fetch_rows_no_cutoff(sensor_id, cutoff, username) ==
    {readings[i] : i \in {j \in 1..Len(readings) :
        /\ readings[j].sensor_id = sensor_id
        /\ owns_sensor(username, readings[j].sensor_id)}}

(* the rows the SELECT of fetch_readings matches *)
fetch_rows(sensor_id, cutoff, username) ==
    {readings[i] : i \in {j \in 1..Len(readings) :
        /\ readings[j].sensor_id = sensor_id
        /\ owns_sensor(username, readings[j].sensor_id)
        /\ readings[j].timestamp >= cutoff}}

(* ORDER BY r.timestamp ASC: every order of the matched rows that is sorted *)
(* by timestamp (rows with equal timestamps come in any order)              *)
fetch_readings(sensor_id, cutoff, username) ==
    LET M == fetch_rows(sensor_id, cutoff, username)
        n == Cardinality(M)
    IN {s \in [1..n -> M] :
          /\ \A i, j \in 1..n : i /= j => s[i] /= s[j]
          /\ \A i, j \in 1..n : i < j => s[i].timestamp <= s[j].timestamp}

-----------------------------------------------------------------------------
(* solana.rs *)

enough_balance(balance) == balance > MinBalance

Memo(reading) == <<"pollution:v1:", reading_hash(reading)>>

(* SolanaClient::submit, the transaction it sends: one memo instruction,   *)
(* signed by the service's keypair; tx.signatures[0] names it.  The ledger *)
(* has accepted it for processing and has not (yet) executed it.           *)
Transaction(signature, reading) ==
    [signature |-> signature, memo |-> Memo(reading), status |-> "submitted"]

(* What the ledger records of a transaction once it has processed it: the  *)
(* log of a confirmed memo transaction holds the memo program's line with  *)
(* the memo; a transaction that failed has no such line.                   *)
LogLine(text, memo) == [text |-> text, memo |-> memo]

log_messages(tx) ==
    IF tx.status = "confirmed"
    THEN <<LogLine("Program invoke", None),
           LogLine("Program log: Memo", Some(tx.memo)),
           LogLine("Program success", None)>>
    ELSE <<LogLine("Program invoke", None), LogLine("Program failed", None)>>

(* rpc_client.get_transaction: None for Err (the call fails, or the ledger *)
(* has no record of a transaction with this signature: it was never sent,  *)
(* or is not processed yet), else the record with its meta                 *)
get_transaction(signature, rpc_ok) ==
    LET K == {k \in 1..Len(ledger) :
                ledger[k].signature = signature /\ ledger[k].status /= "submitted"}
    IN IF ~rpc_ok \/ K = {} THEN None
       ELSE LET k == CHOOSE k \in K : TRUE
            IN Some([meta |-> Some([log_messages |-> Some(log_messages(ledger[k]))])])

(* SolanaClient::verify, the memo it expects for a reading *)
expected_memo(reading) == <<"pollution:v1:", reading_hash(reading)>>

(* log.contains(&expected_memo) *)
contains(log, memo) == log.memo = Some(memo)

(* faulty variant: any memo line counts *)
verify_any_memo(reading, signature, rpc_ok) ==
    IF signature = None THEN "Err"
    ELSE LET tx == get_transaction(signature[1], rpc_ok)
         IN IF tx = None THEN "Err"
            ELSE IF /\ tx[1].meta /= None
                    /\ tx[1].meta[1].log_messages /= None
                    /\ \E n \in 1..Len(tx[1].meta[1].log_messages[1]) :
                         tx[1].meta[1].log_messages[1][n].memo /= None
            THEN "Ok(true)"
            ELSE "Ok(false)"

(* SolanaClient::verify, the Result<bool> it returns.  The signature given *)
(* is None when the string does not parse as a signature.                  *)
verify(reading, signature, rpc_ok) ==
    IF signature = None THEN "Err"
    ELSE LET tx == get_transaction(signature[1], rpc_ok)
         IN IF tx = None THEN "Err"
            ELSE IF /\ tx[1].meta /= None
                    /\ tx[1].meta[1].log_messages /= None
                    /\ \E n \in 1..Len(tx[1].meta[1].log_messages[1]) :
                         contains(tx[1].meta[1].log_messages[1][n],
                                  expected_memo(reading))
            THEN "Ok(true)"
            ELSE "Ok(false)"

-----------------------------------------------------------------------------
(* The requests.  A task records the request (header, payload, path and    *)
(* query, form), the handler's position, and what the handler has done:    *)
(* at      when the middleware checked its token                           *)
(* claims  the claims the middleware attached to the request               *)
(* row     the id of the row insert_reading wrote for it                   *)
(* sends   the send_transaction calls made for it                          *)
(* owner   the owner of the sensor when owns_sensor looked it up            *)
(* queried whether the readings query was executed for it                  *)
(* cutoff  the cutoff time to_cutoff_time computed for it                  *)
(* hash    the digest a call of reading_hash returned                      *)
(* signature, result: of a call of SolanaClient::verify, the transaction   *)
(*         reference it was given and the Result<bool> it returned         *)
(* log     the stages it went through, with their results                  *)
(* resp    the response, once the handler has returned                     *)

NoReading == None
NoForm == None

Task(kind, pc, header, payload, sensor, range, form) ==
    [kind |-> kind, pc |-> pc, header |-> header, payload |-> payload,
     sensor |-> sensor, range |-> range, form |-> form, at |-> 0,
     claims |-> None, row |-> None, sends |-> 0, owner |-> None,
     queried |-> FALSE, cutoff |-> None, signature |-> None, result |-> "",
     hash |-> None,
     log |-> <<>>, resp |-> None]

(* the handler returns: the response is set and the task is over *)
Return(t, event, resp) ==
    [t EXCEPT !.pc = "done", !.log = Append(@, event), !.resp = Some(resp)]

(* the handler goes on to its next store or ledger call *)
Goto(t, event, pc) ==
    [t EXCEPT !.pc = pc, !.log = Append(@, event)]

Remove(seq, i) == SubSeq(seq, 1, i - 1) \o SubSeq(seq, i + 1, Len(seq))

(* 1 if t is an ingestion that has returned HttpResponse::success(), else 0 *)
Successes(t) ==
    IF t.kind = "ingest" /\ t.pc = "done" /\ t.resp = Some(success) THEN 1 ELSE 0

(* a request arrives and its handler runs up to its first await, or returns *)
Receive(t) ==
    /\ received' = received + 1
    /\ accepted' = accepted + Successes(t)
    /\ IF t.pc = "done"
       THEN tasks' = tasks /\ last' = Some(t)
       ELSE tasks' = Append(tasks, t) /\ last' = last

(* task i takes a step and is now t *)
Step(i, t) ==
    /\ received' = received
    /\ accepted' = accepted + Successes(t)
    /\ IF t.pc = "done"
       THEN tasks' = Remove(tasks, i) /\ last' = Some(t)
       ELSE tasks' = [tasks EXCEPT ![i] = t] /\ last' = last

Readings ==
    [sensor_id : SensorIds, timestamp : TsValues, co2 : Co2Values,
     temperature : TempValues]

Forms == [username : Users, password : Passwords]

(* what verify can be called with: a reading, and a string that is no      *)
(* signature or the signature of a transaction, sent or not                *)
VerifyCo2Values == {5000, 5004}
VerifyReadings ==
    [sensor_id : SensorIds, timestamp : TsValues, co2 : VerifyCo2Values,
     temperature : TempValues]
Signatures == {None} \cup {Some(k) : k \in 1..MaxTasks}

(* what a client can put in the Authorization header: nothing, another     *)
(* scheme, a bearer string that is no token, a token this service issued,  *)
(* or a token the client signed itself with a secret of its own            *)
ForgedTokens ==
    {[claims |-> Claims("alice", Instants[Len(Instants)] + TokenTtl), key |-> "other"]}

Headers ==
    {NoHeader, BasicHeader, MalformedBearer}
        \cup {Bearer(t) : t \in issued \cup ForgedTokens}

(* ingest_reading reads no header *)
IngestHeaders == {NoHeader} \cup {Bearer(t) : t \in issued}

-----------------------------------------------------------------------------
(* main.rs, main: the environment is read, the pool is connected, the       *)
(* router is built and served.  The handlers of api.rs take an AppState,    *)
(* which AppState::new builds from the pool and a SolanaClient;             *)
(* SolanaClient::new fails without a parsable keypair.                      *)

SolanaClient_new(e) == e.keypair

main ==
    /\ phase = "boot"
    /\ \E connected \in BOOLEAN :
         phase' = IF /\ env.database_url
                     /\ env.jwt_secret
                     /\ connected
                     /\ SolanaClient_new(env)
                  THEN "serving" ELSE "failed"
    /\ UNCHANGED <<env, now, users, sensors, readings, ledger, issued, nextSalt,
                   tasks, last, received, accepted>>

(* time passes *)
Tick ==
    /\ phase = "serving"
    /\ \E k \in 1..Len(Instants) : Instants[k] > now /\ now' = Instants[k]
    /\ UNCHANGED <<phase, env, users, sensors, readings, ledger, issued, nextSalt,
                   tasks, last, received, accepted>>

(* out of band, a registered sensor is given to another registered user *)
TransferSensor ==
    /\ phase = "serving"
    /\ \E s \in SensorIds, u \in Users :
         /\ sensors[s] /= None
         /\ users[u] /= None
         /\ sensors[s] /= Some(u)
         /\ sensors' = [sensors EXCEPT ![s] = Some(u)]
    /\ UNCHANGED <<phase, env, now, users, readings, ledger, issued, nextSalt,
                   tasks, last, received, accepted>>

-----------------------------------------------------------------------------
(* api.rs, ingest_reading, served on the public route /sensors/ingest       *)
(* (main.rs, the router): no middleware runs before it.                     *)

(* the request arrives and the payload is validated *)
ingest_reading_validate ==
    /\ phase = "serving"
    /\ received < MaxTasks
    /\ \E header \in IngestHeaders, payload \in Readings :
         LET t == Task("ingest", "sensor_exists", header, Some(payload), 0, "none", NoForm)
             reason == validate_reading(payload)
         IN Receive(IF reason /= None
                    THEN Return(t, "invalid", bad_request(reason[1]))
                    ELSE Goto(t, "valid", "sensor_exists"))
    /\ UNCHANGED <<phase, env, now, users, sensors, readings, ledger, issued, nextSalt>>

(* faulty variant: a store error counts as "exists" *)
ingest_reading_sensor_exists_fail_open(i) ==
    /\ tasks[i].kind = "ingest" /\ tasks[i].pc = "sensor_exists"
    /\ \E db_ok \in BOOLEAN :
         Step(i, IF ~db_ok THEN Goto(tasks[i], "sensor_exists_err", "insert")
                 ELSE IF sensor_exists(tasks[i].payload[1].sensor_id) = FALSE
                 THEN Return(tasks[i], "not_registered",
                             bad_request("Sensor is not registered"))
                 ELSE Goto(tasks[i], "registered", "insert"))
    /\ UNCHANGED <<phase, env, now, users, sensors, readings, ledger, issued, nextSalt>>

(* db::sensor_exists(..).await *)
ingest_reading_sensor_exists(i) ==
    /\ tasks[i].kind = "ingest" /\ tasks[i].pc = "sensor_exists"
    /\ \E db_ok \in BOOLEAN :
         Step(i, IF ~db_ok THEN Return(tasks[i], "sensor_exists_err", internal_error)
                 ELSE IF sensor_exists(tasks[i].payload[1].sensor_id) = FALSE
                 THEN Return(tasks[i], "not_registered",
                             bad_request("Sensor is not registered"))
                 ELSE Goto(tasks[i], "registered", "insert"))
    /\ UNCHANGED <<phase, env, now, users, sensors, readings, ledger, issued, nextSalt>>

(* faulty variant: one row per sensor, the last writer wins *)
ingest_reading_insert_upsert(i) ==
    /\ tasks[i].kind = "ingest" /\ tasks[i].pc = "insert"
    /\ \E db_ok \in BOOLEAN :
         IF db_ok
         THEN /\ readings' =
                   Append(SelectSeq(readings,
                                    LAMBDA r : r.sensor_id /= tasks[i].payload[1].sensor_id),
                          Row(Len(readings) + 1, tasks[i].payload[1]))
              /\ Step(i, [Goto(tasks[i], "inserted", "submit")
                            EXCEPT !.row = Some(Len(readings) + 1)])
         ELSE /\ readings' = readings
              /\ Step(i, Return(tasks[i], "insert_err", internal_error))
    /\ UNCHANGED <<phase, env, now, users, sensors, ledger, issued, nextSalt>>

(* faulty variant: a failed insert is ignored and the reading is anchored *)
ingest_reading_insert_ignore_err(i) ==
    /\ tasks[i].kind = "ingest" /\ tasks[i].pc = "insert"
    /\ \E db_ok \in BOOLEAN :
         IF db_ok
         THEN /\ readings' = Append(readings, Row(Len(readings) + 1, tasks[i].payload[1]))
              /\ Step(i, [Goto(tasks[i], "inserted", "submit")
                            EXCEPT !.row = Some(Len(readings) + 1)])
         ELSE /\ readings' = readings
              /\ Step(i, Goto(tasks[i], "insert_err", "submit"))
    /\ UNCHANGED <<phase, env, now, users, sensors, ledger, issued, nextSalt>>

(* faulty variant: a reading equal to a stored one is not inserted again *)
ingest_reading_insert_dedup(i) ==
    /\ tasks[i].kind = "ingest" /\ tasks[i].pc = "insert"
    /\ \E db_ok \in BOOLEAN :
         LET Same == {k \in 1..Len(readings) :
                        readings[k] = Row(k, tasks[i].payload[1])}
         IN IF db_ok /\ Same /= {}
            THEN /\ readings' = readings
                 /\ Step(i, [Goto(tasks[i], "inserted", "submit")
                               EXCEPT !.row = Some(CHOOSE k \in Same : TRUE)])
            ELSE IF db_ok
            THEN /\ readings' = Append(readings,
                                       Row(Len(readings) + 1, tasks[i].payload[1]))
                 /\ Step(i, [Goto(tasks[i], "inserted", "submit")
                               EXCEPT !.row = Some(Len(readings) + 1)])
            ELSE /\ readings' = readings
                 /\ Step(i, Return(tasks[i], "insert_err", internal_error))
    /\ UNCHANGED <<phase, env, now, users, sensors, ledger, issued, nextSalt>>

(* db::insert_reading(..).await *)
ingest_reading_insert(i) ==
    /\ tasks[i].kind = "ingest" /\ tasks[i].pc = "insert"
    /\ \E db_ok \in BOOLEAN :
         IF db_ok
         THEN /\ readings' = Append(readings, Row(Len(readings) + 1, tasks[i].payload[1]))
              /\ Step(i, [Goto(tasks[i], "inserted", "submit")
                            EXCEPT !.row = Some(Len(readings) + 1)])
         ELSE /\ readings' = readings
              /\ Step(i, Return(tasks[i], "insert_err", internal_error))
    /\ UNCHANGED <<phase, env, now, users, sensors, ledger, issued, nextSalt>>

(* faulty variant: a failed send is tried once more *)
submit_sends_retry(rpc) ==
    IF rpc = "blockhash_err" THEN 0 ELSE IF rpc = "send_err" THEN 2 ELSE 1

(* SolanaClient::submit: the memo is built, the latest blockhash is        *)
(* fetched, the transaction is signed and sent once; the result is         *)
(* "blockhash_err", "send_err" or "sent"; the send_transaction calls made  *)
submit_sends(rpc) == IF rpc = "blockhash_err" THEN 0 ELSE 1

(* faulty variant: a failed submission deletes the row again *)
ingest_reading_submit_rollback(i) ==
    /\ tasks[i].kind = "ingest" /\ tasks[i].pc = "submit"
    /\ \E rpc \in {"blockhash_err", "send_err", "sent"} :
         /\ ledger' = IF rpc = "sent"
                      THEN Append(ledger, Transaction(Len(ledger) + 1, tasks[i].payload[1]))
                      ELSE ledger
         /\ readings' = IF rpc = "sent" THEN readings
                        ELSE SelectSeq(readings, LAMBDA r : r.id /= tasks[i].row[1])
         /\ Step(i, [(IF rpc = "sent" THEN Return(tasks[i], "sent", success)
                      ELSE Return(tasks[i], rpc, internal_error))
                     EXCEPT !.sends = @ + submit_sends(rpc)])
    /\ UNCHANGED <<phase, env, now, users, sensors, issued, nextSalt>>

(* faulty variant: send_and_confirm_transaction, the handler waits until   *)
(* the ledger has processed the transaction                                *)
ingest_reading_submit_confirmed(i) ==
    /\ tasks[i].kind = "ingest" /\ tasks[i].pc = "submit"
    /\ \E rpc \in {"blockhash_err", "send_err", "sent"} :
         /\ ledger' = IF rpc = "blockhash_err" THEN ledger
                      ELSE Append(ledger,
                             [Transaction(Len(ledger) + 1, tasks[i].payload[1])
                                EXCEPT !.status = IF rpc = "sent" THEN "confirmed"
                                                  ELSE "rejected"])
         /\ Step(i, [(IF rpc = "sent" THEN Return(tasks[i], "sent", success)
                      ELSE Return(tasks[i], rpc, internal_error))
                     EXCEPT !.sends = @ + submit_sends(rpc)])
    /\ UNCHANGED <<phase, env, now, users, sensors, readings, issued, nextSalt>>

(* faulty variant: the anchor stage stamps the row with the anchoring time *)
ingest_reading_submit_anchored(i) ==
    /\ tasks[i].kind = "ingest" /\ tasks[i].pc = "submit"
    /\ \E rpc \in {"blockhash_err", "send_err", "sent"} :
         /\ ledger' = IF rpc = "sent"
                      THEN Append(ledger, Transaction(Len(ledger) + 1, tasks[i].payload[1]))
                      ELSE ledger
         /\ readings' = IF rpc = "sent"
                        THEN [k \in 1..Len(readings) |->
                                IF readings[k].id = tasks[i].row[1]
                                THEN [readings[k] EXCEPT !.timestamp = now]
                                ELSE readings[k]]
                        ELSE readings
         /\ Step(i, [(IF rpc = "sent" THEN Return(tasks[i], "sent", success)
                      ELSE Return(tasks[i], rpc, internal_error))
                     EXCEPT !.sends = @ + submit_sends(rpc)])
    /\ UNCHANGED <<phase, env, now, users, sensors, issued, nextSalt>>

(* state.client.submit(payload).await and the response *)
ingest_reading_submit(i) ==
    /\ tasks[i].kind = "ingest" /\ tasks[i].pc = "submit"
    /\ \E rpc \in {"blockhash_err", "send_err", "sent"} :
         /\ ledger' = IF rpc = "sent"
                      THEN Append(ledger, Transaction(Len(ledger) + 1, tasks[i].payload[1]))
                      ELSE ledger
         /\ Step(i, [(IF rpc = "sent" THEN Return(tasks[i], "sent", success)
                      ELSE Return(tasks[i], rpc, internal_error))
                     EXCEPT !.sends = @ + submit_sends(rpc)])
    /\ UNCHANGED <<phase, env, now, users, sensors, readings, issued, nextSalt>>

(* the ledger processes a transaction it had accepted: it is confirmed,    *)
(* its memo logged, or it fails and is rejected                            *)
Confirm ==
    /\ \E k \in 1..Len(ledger) :
         /\ ledger[k].status = "submitted"
         /\ ledger' = [ledger EXCEPT ![k].status = "confirmed"]
    /\ UNCHANGED <<phase, env, now, users, sensors, readings, issued, nextSalt,
                   tasks, last, received, accepted>>

Reject ==
    /\ \E k \in 1..Len(ledger) :
         /\ ledger[k].status = "submitted"
         /\ ledger' = [ledger EXCEPT ![k].status = "rejected"]
    /\ UNCHANGED <<phase, env, now, users, sensors, readings, issued, nextSalt,
                   tasks, last, received, accepted>>

(* SolanaClient::verify is called (no handler of the service calls it: the *)
(* caller is an auditor holding the client)                                *)
SolanaClient_verify ==
    /\ phase = "serving"
    /\ received < MaxTasks
    /\ \E reading \in VerifyReadings, signature \in Signatures, rpc_ok \in BOOLEAN :
         LET t == Task("verify", "done", NoHeader, Some(reading), 0, "none", NoForm)
             result == verify(reading, signature, rpc_ok)
             event == IF signature = None THEN "bad_signature"
                      ELSE IF get_transaction(signature[1], rpc_ok) = None
                      THEN "no_record" ELSE "fetched"
         IN Receive([t EXCEPT !.signature = signature, !.result = result,
                              !.log = <<event>>])
    /\ UNCHANGED <<phase, env, now, users, sensors, readings, ledger, issued, nextSalt>>

-----------------------------------------------------------------------------
(* api.rs, protected_routes: fetch_reading behind the verify_jwt layer *)

(* auth.rs, verify_jwt: the request arrives at the middleware *)
verify_jwt ==
    /\ phase = "serving"
    /\ received < MaxTasks
    /\ \E header \in Headers, sensor_id \in SensorIds, range \in RangeInputs :
         LET t == [Task("fetch", "owns_sensor", header, NoReading, sensor_id, range, NoForm)
                     EXCEPT !.at = now]
             claims == verify_token(header, now)
         IN Receive(IF claims = None
                    THEN Return(t, "unauthenticated", UNAUTHORIZED)
                    ELSE [Goto(t, "authenticated", "owns_sensor") EXCEPT !.claims = claims])
    /\ UNCHANGED <<phase, env, now, users, sensors, readings, ledger, issued, nextSalt>>

(* db::owns_sensor(..).await *)
fetch_reading_owns_sensor(i) ==
    /\ tasks[i].kind = "fetch" /\ tasks[i].pc = "owns_sensor"
    /\ \E db_ok \in BOOLEAN :
         LET t == [tasks[i] EXCEPT !.owner = IF db_ok THEN sensors[tasks[i].sensor] ELSE None]
         IN Step(i, IF ~db_ok THEN Return(t, "owns_sensor_err", internal_error)
                    ELSE IF owns_sensor(t.claims[1].sub, t.sensor) = FALSE
                    THEN Return(t, "not_owner",
                                forbidden("Not authorized to access this sensor"))
                    ELSE Goto(t, "owner", "fetch_readings"))
    /\ UNCHANGED <<phase, env, now, users, sensors, readings, ledger, issued, nextSalt>>

(* db::fetch_readings(..).await *)
fetch_reading_fetch_readings(i) ==
    /\ tasks[i].kind = "fetch" /\ tasks[i].pc = "fetch_readings"
    /\ \E db_ok \in BOOLEAN :
         LET cutoff == to_cutoff_time(tasks[i].range, now)
         IN IF db_ok
            THEN \E rows \in fetch_readings(tasks[i].sensor, cutoff,
                                            tasks[i].claims[1].sub) :
                   Step(i, [Return(tasks[i], "fetched", success_data(rows))
                              EXCEPT !.queried = TRUE, !.cutoff = Some(cutoff)])
            ELSE Step(i, [Return(tasks[i], "fetch_err", internal_error)
                              EXCEPT !.queried = TRUE, !.cutoff = Some(cutoff)])
    /\ UNCHANGED <<phase, env, now, users, sensors, readings, ledger, issued, nextSalt>>

-----------------------------------------------------------------------------
(* registration and login, on public routes *)

(* db::register_user: the hash is computed, then the INSERT runs; the      *)
(* result is "ok", "unique" (SQLSTATE 23505) or "error"                     *)
register_user(form, db_ok) ==
    IF ~db_ok THEN "error"
    ELSE IF users[form.username] /= None THEN "unique"
    ELSE "ok"

RegisterEffect(form, result) ==
    /\ nextSalt' = nextSalt + 1
    /\ users' = IF result = "ok"
                THEN [users EXCEPT ![form.username] =
                        Some(calculate_hash(form.password, nextSalt))]
                ELSE users

(* api.rs, user_registry: the response to each result *)
user_registry_response(result) ==
    CASE result = "ok" -> success
      [] result = "unique" -> conflicts("Username already taken")
      [] OTHER -> internal_error

user_registry ==
    /\ phase = "serving"
    /\ received < MaxTasks
    /\ \E form \in Forms, db_ok \in BOOLEAN :
         LET result == register_user(form, db_ok)
             t == Task("register", "done", NoHeader, NoReading, 0, "none", Some(form))
         IN /\ RegisterEffect(form, result)
            /\ Receive(Return(t, result, user_registry_response(result)))
    /\ UNCHANGED <<phase, env, now, sensors, readings, ledger, issued>>

(* main.rs, user_registry: the response to each result *)
main_user_registry_response(result) ==
    IF result /= "ok" THEN internal_error ELSE success

main_user_registry ==
    /\ phase = "serving"
    /\ received < MaxTasks
    /\ \E form \in Forms, db_ok \in BOOLEAN :
         LET result == register_user(form, db_ok)
             t == Task("register_main", "done", NoHeader, NoReading, 0, "none", Some(form))
         IN /\ RegisterEffect(form, result)
            /\ Receive(Return(t, result, main_user_registry_response(result)))
    /\ UNCHANGED <<phase, env, now, sensors, readings, ledger, issued>>

(* db::user_login: Ok(valid) *)
db_user_login(form) ==
    IF users[form.username] = None THEN FALSE
    ELSE verify_hash(form.password, users[form.username][1])

(* api.rs, user_login *)
user_login ==
    /\ phase = "serving"
    /\ received < MaxTasks
    /\ \E form \in Forms, db_ok \in BOOLEAN :
         LET t == Task("login", "done", NoHeader, NoReading, 0, "none", Some(form))
             token == create_jwt(form.username, now)
         IN IF ~db_ok
            THEN /\ Receive(Return(t, "login_err", internal_error))
                 /\ issued' = issued
            ELSE IF db_user_login(form)
            THEN /\ Receive(Return(t, "valid", success_data(LoginResponse(token, form))))
                 /\ issued' = issued \cup {token}
            ELSE /\ Receive(Return(t, "invalid", unauthorized("Invalid credentials")))
                 /\ issued' = issued
    /\ UNCHANGED <<phase, env, now, users, sensors, readings, ledger, nextSalt>>

-----------------------------------------------------------------------------

Envs ==
    [database_url : BOOLEAN, jwt_secret : BOOLEAN, keypair : BOOLEAN, balance : Balances]

(* The store outlives the process: it starts with user alice, who owns     *)
(* sensor 7; sensor 8 is not registered.                                    *)
Init ==
    /\ phase = "boot"
    /\ env \in Envs
    /\ now = Instants[1]
    /\ users = [u \in Users |->
                  IF u = "alice" THEN Some(calculate_hash("pw1", 0)) ELSE None]
    /\ sensors = [s \in SensorIds |-> IF s = 7 THEN Some("alice") ELSE None]
    /\ readings = <<>>
    /\ ledger = <<>>
    /\ issued = {}
    /\ nextSalt = 1
    /\ tasks = <<>>
    /\ last = None
    /\ received = 0
    /\ accepted = 0

Next ==
    \/ main
    \/ Tick
    \/ TransferSensor
    \/ ingest_reading_validate
    \/ \E i \in 1..Len(tasks) : ingest_reading_sensor_exists(i)
    \/ \E i \in 1..Len(tasks) : ingest_reading_insert(i)
    \/ \E i \in 1..Len(tasks) : ingest_reading_submit(i)
    \/ Confirm
    \/ Reject
    \/ SolanaClient_verify
    \/ verify_jwt
    \/ \E i \in 1..Len(tasks) : fetch_reading_owns_sensor(i)
    \/ \E i \in 1..Len(tasks) : fetch_reading_fetch_readings(i)
    \/ user_registry
    \/ main_user_registry
    \/ user_login

Spec == Init /\ [][Next]_vars

-----------------------------------------------------------------------------
(* to_cutoff_time on its own: the clock reads any of a range of instants   *)
(* and the function is called with every selector a query can carry.       *)

CutoffInstants == {d * DayS + d * 3601 : d \in 0..MaxDays}

CutoffInit ==
    /\ phase = "cutoff"
    /\ env \in {e \in Envs : e.database_url /\ e.jwt_secret /\ e.keypair}
    /\ now \in CutoffInstants
    /\ users = [u \in Users |-> None]
    /\ sensors = [s \in SensorIds |-> None]
    /\ readings = <<>>
    /\ ledger = <<>>
    /\ issued = {}
    /\ nextSalt = 1
    /\ tasks = <<>>
    /\ last = None
    /\ received = 0
    /\ accepted = 0

to_cutoff_time_call ==
    /\ phase = "cutoff"
    /\ \E range \in TimeRanges :
         last' = Some([Task("cutoff", "done", NoHeader, NoReading, 0, range, NoForm)
                         EXCEPT !.at = now,
                                !.cutoff = Some(to_cutoff_time(range, now))])
    /\ UNCHANGED <<phase, env, now, users, sensors, readings, ledger, issued, nextSalt,
                   tasks, received, accepted>>

CutoffNext == to_cutoff_time_call

CutoffSpec == CutoffInit /\ [][CutoffNext]_vars

-----------------------------------------------------------------------------
(* The read path over a store that already holds rows.  The process is     *)
(* serving; alice owns sensor 7 and bob sensor 8; alice has just logged in *)
(* (the one request received so far).  The store holds rows of both        *)
(* sensors in any insertion order: rows of sensor 7 stamped just before    *)
(* the default cutoff, at the cutoff and now, and a row of sensor 8.       *)

StoredReadings ==
    {[sensor_id |-> 7, timestamp |-> ts, co2 |-> 5000, temperature |-> 21300] :
        ts \in {to_cutoff_time("none", Instants[1]) - 1,
                to_cutoff_time("none", Instants[1]),
                Instants[1]}}
      \cup {[sensor_id |-> 8, timestamp |-> Instants[1], co2 |-> 5000,
              temperature |-> 21300]}

InitialStores ==
    {[k \in 1..InitRows |-> Row(k, s[k])] : s \in [1..InitRows -> StoredReadings]}

FetchInit ==
    /\ phase = "serving"
    /\ env \in {e \in Envs : e.database_url /\ e.jwt_secret /\ e.keypair
                                /\ enough_balance(e.balance)}
    /\ now = Instants[1]
    /\ users = [u \in Users |->
                  Some(calculate_hash(IF u = "alice" THEN "pw1" ELSE "pw2", 0))]
    /\ sensors = [s \in SensorIds |-> IF s = 7 THEN Some("alice") ELSE Some("bob")]
    /\ readings \in InitialStores
    /\ ledger = <<>>
    /\ issued = {create_jwt("alice", Instants[1])}
    /\ nextSalt = 1
    /\ tasks = <<>>
    /\ LET form == [username |-> "alice", password |-> "pw1"]
           t == Task("login", "done", NoHeader, NoReading, 0, "none", Some(form))
           token == create_jwt("alice", Instants[1])
       IN last = Some(Return(t, "valid", success_data(LoginResponse(token, form))))
    /\ received = 1
    /\ accepted = 0

FetchNext ==
    \/ ingest_reading_validate
    \/ \E i \in 1..Len(tasks) : ingest_reading_sensor_exists(i)
    \/ \E i \in 1..Len(tasks) : ingest_reading_insert(i)
    \/ \E i \in 1..Len(tasks) : ingest_reading_submit(i)
    \/ verify_jwt
    \/ \E i \in 1..Len(tasks) : fetch_reading_owns_sensor(i)
    \/ \E i \in 1..Len(tasks) : fetch_reading_fetch_readings(i)

FetchSpec == FetchInit /\ [][FetchNext]_vars

-----------------------------------------------------------------------------
(* reading_hash on its own: it is called, at any time, with readings that  *)
(* differ in one field or several, by a little or by much; the two latest  *)
(* calls are kept.  Here a reading's instant has its milliseconds (subsec) *)
(* beside its whole seconds.                                               *)

HashReadings ==
    [sensor_id : SensorIds, timestamp : {0, 1}, subsec : {0, 500},
     co2 : {5001, 5004, 5006}, temperature : {-4, 4}]

HashInit ==
    /\ phase = "serving"
    /\ env \in {e \in Envs : e.database_url /\ e.jwt_secret /\ e.keypair
                                /\ enough_balance(e.balance)}
    /\ now = Instants[1]
    /\ users = [u \in Users |-> None]
    /\ sensors = [s \in SensorIds |-> None]
    /\ readings = <<>>
    /\ ledger = <<>>
    /\ issued = {}
    /\ nextSalt = 1
    /\ tasks = <<>>
    /\ last = None
    /\ received = 0
    /\ accepted = 0

reading_hash_call ==
    /\ \E reading \in HashReadings :
         last' = Some([Task("hash", "done", NoHeader, Some(reading), 0, "none", NoForm)
                         EXCEPT !.at = now,
                                !.hash = Some(reading_hash(reading))])
    /\ tasks' = last
    /\ UNCHANGED <<phase, env, now, users, sensors, readings, ledger, issued, nextSalt,
                   received, accepted>>

HashNext ==
    \/ Tick
    \/ reading_hash_call

HashSpec == HashInit /\ [][HashNext]_vars

-----------------------------------------------------------------------------
(* Registration and login over a store that holds a damaged credential:    *)
(* the password column of alice is no Argon2 hash string (it was written   *)
(* by something else than register_user); bob is not registered.           *)

MalformedHash == [wellformed |-> FALSE, salt |-> 0, pw |-> "pw1"]

LoginInit ==
    /\ phase = "serving"
    /\ env \in {e \in Envs : e.database_url /\ e.jwt_secret /\ e.keypair}
    /\ now = Instants[1]
    /\ users = [u \in Users |-> IF u = "alice" THEN Some(MalformedHash) ELSE None]
    /\ sensors = [s \in SensorIds |-> None]
    /\ readings = <<>>
    /\ ledger = <<>>
    /\ issued = {}
    /\ nextSalt = 1
    /\ tasks = <<>>
    /\ last = None
    /\ received = 0
    /\ accepted = 0

LoginNext ==
    \/ Tick
    \/ user_registry
    \/ user_login

LoginSpec == LoginInit /\ [][LoginNext]_vars

-----------------------------------------------------------------------------
(* The read path racing with changes of ownership: the store holds rows,   *)
(* alice has logged in, requests to fetch arrive, and out of band sensors  *)
(* change hands at any moment, also between the two store calls of a       *)
(* fetch.                                                                  *)

RaceNext ==
    \/ TransferSensor
    \/ verify_jwt
    \/ \E i \in 1..Len(tasks) : fetch_reading_owns_sensor(i)
    \/ \E i \in 1..Len(tasks) : fetch_reading_fetch_readings(i)

RaceSpec == FetchInit /\ [][RaceNext]_vars

-----------------------------------------------------------------------------
(* Properties.  They are stated over the tasks in flight and the task      *)
(* answered last; every task is the last one answered right after its      *)
(* handler returns.                                                        *)

AllTasks == {tasks[i] : i \in 1..Len(tasks)} \cup {last[i] : i \in 1..Len(last)}

Finished(t) == t.pc = "done"
Outcome(t) == t.log[Len(t.log)]
Status(t) == t.resp[1].status

(* this step answers a request: one that arrives and is answered at once,  *)
(* or one in flight whose handler returns                                  *)
Answers ==
    \/ received' /= received /\ Len(tasks') = Len(tasks)
    \/ Len(tasks') < Len(tasks)
Answered == last'[1]

(* C1: an ingestion request whose reading has co2 < 0 is answered with     *)
(* status 400 at validation: it never gets to a store or ledger call, it   *)
(* writes no row and sends no transaction, and the step that answers it    *)
(* leaves the stored rows and the ledger's transactions as they were.      *)
C1_NegativeCo2NoSideEffect ==
    /\ [](\A t \in AllTasks :
            t.kind = "ingest" /\ t.payload[1].co2 < 0 =>
                /\ Finished(t)
                /\ Status(t) = 400
                /\ t.row = None
                /\ t.sends = 0)
    /\ [][Answers /\ Answered.kind = "ingest" /\ Answered.payload[1].co2 < 0 =>
            readings' = readings /\ ledger' = ledger]_vars

C1_Witness ==
    /\ last /= None
    /\ last[1].kind = "ingest"
    /\ last[1].payload[1].co2 < 0
    /\ Status(last[1]) = 400
    /\ Len(readings) = 1
    /\ Len(ledger) = 1

AnchorFailed(t) ==
    t.kind = "ingest" /\ Finished(t) /\ Outcome(t) \in {"blockhash_err", "send_err"}

(* C2: when insert_reading succeeded and submit then fails, the caller     *)
(* gets status 500 and the row written for the reading is still in the     *)
(* store, with the reading's fields and nothing else; the failing step     *)
(* leaves the rows as they were.                                           *)
C2_PersistBeforeAnchor ==
    /\ [](\A t \in AllTasks :
            AnchorFailed(t) =>
                /\ t.payload[1].co2 >= 0
                /\ Status(t) = 500
                /\ t.row /= None
                /\ Cardinality({k \in 1..Len(readings) : readings[k].id = t.row[1]}) = 1
                /\ \E k \in 1..Len(readings) : readings[k] = Row(t.row[1], t.payload[1]))
    /\ [][Answers /\ AnchorFailed(Answered) => readings' = readings]_vars

C2_Witness ==
    /\ last /= None
    /\ AnchorFailed(last[1])
    /\ Outcome(last[1]) = "send_err"
    /\ Len(readings) = 1
    /\ ledger = <<>>

(* the ownership check of task t got an answer from the store, and the     *)
(* sensor was then not owned by the token's subject                        *)
CheckedNotOwner(t) ==
    /\ t.kind = "fetch"
    /\ Len(t.log) >= 2
    /\ t.log[2] /= "owns_sensor_err"
    /\ t.owner /= Some(t.claims[1].sub)

(* C3: an authenticated fetch of a sensor by a subject who does not own it *)
(* is answered with status 403 and no data, and the readings query is not  *)
(* executed for it.                                                        *)
C3_NonOwnerForbidden ==
    \A t \in AllTasks :
        CheckedNotOwner(t) =>
            /\ Finished(t)
            /\ Status(t) = 403
            /\ t.resp[1].body = None
            /\ t.queried = FALSE

C3_Witness ==
    /\ last /= None
    /\ CheckedNotOwner(last[1])
    /\ last[1].owner = Some("alice")
    /\ last[1].claims[1].sub = "bob"
    /\ Status(last[1]) = 403

(* the token a fetch request presented, when its header holds one *)
HasToken(t) == t.kind = "fetch" /\ t.header.scheme = "bearer" /\ t.header.token /= None
Token(t) == t.header.token[1]

(* the middleware let the request through to the handler *)
Accepted(t) == t.kind = "fetch" /\ t.log /= <<>> /\ t.log[1] = "authenticated"

(* C4 as claimed: a token is accepted if and only if it is signed with the *)
(* service's secret and is not presented after its exp instant.            *)
C4_AcceptedIffUnexpired ==
    \A t \in AllTasks :
        HasToken(t) =>
            (Accepted(t) <=> (Token(t).key = JWT_SECRET /\ ~(t.at > Token(t).claims.exp)))

(* C4, amended: a token is accepted if and only if it is signed with the   *)
(* service's secret and is presented no later than 60 seconds (the         *)
(* decoder's default leeway) after its exp instant; a token signed with    *)
(* another secret is never accepted.                                       *)
C4_AcceptedIffWithinLeeway ==
    \A t \in AllTasks :
        HasToken(t) =>
            (Accepted(t) <=>
                (Token(t).key = JWT_SECRET /\ ~(t.at > Token(t).claims.exp + Leeway)))

C4_Witness ==
    /\ last /= None
    /\ HasToken(last[1])
    /\ Token(last[1]) \in issued
    /\ last[1].at = Token(last[1]).claims.exp + Leeway + 1
    /\ last[1].resp = Some(UNAUTHORIZED)

(* the ingestion of task t has written a row or sent a transaction *)
Persisted(t) == t.kind = "ingest" /\ (t.row /= None \/ t.sends > 0)

(* the handler behind the middleware has run for task t *)
HandlerRan(t) == t.kind = "fetch" /\ (t.pc /= "done" \/ Len(t.log) >= 2)

AuthFailure(t) ==
    CASE t.header.scheme = "none" -> "missing_header"
      [] t.header.scheme /= "none" /\ t.header.scheme /= "bearer" -> "no_bearer_prefix"
      [] t.header.scheme = "bearer" /\ t.header.token = None -> "malformed_token"
      [] HasToken(t) /\ Token(t).key /= JWT_SECRET -> "bad_signature"
      [] HasToken(t) /\ Token(t).key = JWT_SECRET
            /\ t.at > Token(t).claims.exp + Leeway -> "expired"
      [] OTHER -> "none"

(* C6: whatever the reason a token check fails on the protected route, the *)
(* request gets the one unauthenticated response, the same for every       *)
(* reason, and the protected handler does not run for it.                  *)
C6_SingleUnauthenticatedOutcome ==
    \A t \in AllTasks :
        t.kind = "fetch" /\ AuthFailure(t) /= "none" =>
            /\ Finished(t)
            /\ t.resp = Some(UNAUTHORIZED)
            /\ t.log = <<"unauthenticated">>
            /\ t.claims = None
            /\ t.owner = None
            /\ t.queried = FALSE

C6_Witness ==
    /\ last /= None
    /\ last[1].kind = "fetch"
    /\ AuthFailure(last[1]) = "expired"
    /\ last[1].resp = Some(UNAUTHORIZED)

Logged(t, event) == \E k \in 1..Len(t.log) : t.log[k] = event

(* the store answered the sensor check of ingestion t, for a sensor that   *)
(* is not registered                                                       *)
CheckedUnregistered(t) ==
    /\ t.kind = "ingest"
    /\ t.payload[1].co2 >= 0
    /\ sensors[t.payload[1].sensor_id] = None
    /\ Len(t.log) >= 2
    /\ ~Logged(t, "sensor_exists_err")

(* C7: an ingestion with a valid payload for a sensor that is not          *)
(* registered is answered with status 400 (not 500); no row is inserted    *)
(* and no transaction is submitted for it.                                 *)
C7_UnknownSensorRejected ==
    \A t \in AllTasks :
        CheckedUnregistered(t) =>
            /\ Finished(t)
            /\ t.resp = Some(bad_request("Sensor is not registered"))
            /\ Status(t) = 400
            /\ t.row = None
            /\ t.sends = 0

C7_Witness ==
    /\ last /= None
    /\ CheckedUnregistered(last[1])
    /\ Status(last[1]) = 400
    /\ Len(readings) = 1
    /\ Len(ledger) = 1

(* C8: a store error in sensor_exists or in owns_sensor ends the request   *)
(* with the internal error, and no later stage runs: no insert, no         *)
(* submission, no readings query.                                          *)
C8_ChecksFailClosed ==
    \A t \in AllTasks :
        /\ Logged(t, "sensor_exists_err") =>
            /\ Finished(t)
            /\ t.resp = Some(internal_error)
            /\ t.row = None
            /\ t.sends = 0
        /\ Logged(t, "owns_sensor_err") =>
            /\ Finished(t)
            /\ t.resp = Some(internal_error)
            /\ t.queried = FALSE

C8_Witness ==
    /\ last /= None
    /\ last[1].kind = "ingest"
    /\ Outcome(last[1]) = "sensor_exists_err"
    /\ sensors[last[1].payload[1].sensor_id] = None
    /\ Status(last[1]) = 500
    /\ readings = <<>>

(* a ledger submission has been attempted *)
SubmissionAttempted == ledger /= <<>> \/ \E t \in AllTasks : t.sends > 0

(* C9: no ledger submission is attempted by a process whose keypair did    *)
(* not hold the minimum balance when it started; a process without the     *)
(* keypair or without that balance does not get to serve.                  *)
C9_NoSubmissionWithoutBalance ==
    SubmissionAttempted => env.keypair /\ enough_balance(env.balance)

Registration(t) == t.kind \in {"register", "register_main"}

(* C10: a registration for a username that exists is answered with the     *)
(* conflict status 409, not with 500; it leaves the stored credentials as  *)
(* they were; no username ever has more than one credential.               *)
C10_DuplicateUsernameConflict ==
    /\ [](\A t \in AllTasks :
            Registration(t) /\ Outcome(t) = "unique" => Status(t) = 409)
    /\ [](\A u \in Users : Len(users[u]) <= 1)
    /\ [][Answers /\ Registration(Answered) /\ Outcome(Answered) = "unique" =>
            users' = users]_vars

-----------------------------------------------------------------------------

(* the ingestion of task t went through every stage and was answered 200 *)
Succeeded(t) == t.kind = "ingest" /\ Finished(t) /\ Outcome(t) = "sent"

(* the ingestions in flight, and the last one answered, that have inserted *)
Inserted == {t \in AllTasks : t.kind = "ingest" /\ t.row /= None}

(* C11: ingestions running concurrently take no lock: an ingestion that    *)
(* is waiting for a stage can always take it, wherever the others are.     *)
(* Each insert writes a row of its own, no row written by one ingestion is *)
(* lost to another, and the step that answers an ingestion with success    *)
(* has sent exactly one transaction carrying that ingestion's memo, its    *)
(* row still stored.                                                       *)
C11_ConcurrentIngestionsBothKept ==
    /\ [](\A t \in Inserted :
            \E k \in 1..Len(readings) : readings[k] = Row(t.row[1], t.payload[1]))
    /\ [](\A i, j \in 1..Len(tasks) :
            i /= j /\ tasks[i].row /= None => tasks[i].row /= tasks[j].row)
    /\ [](\A i \in 1..Len(tasks) :
            /\ tasks[i].pc = "sensor_exists" => ENABLED ingest_reading_sensor_exists(i)
            /\ tasks[i].pc = "insert" => ENABLED ingest_reading_insert(i)
            /\ tasks[i].pc = "submit" => ENABLED ingest_reading_submit(i))
    /\ [][Answers /\ Succeeded(Answered) =>
            /\ Answered.sends = 1
            /\ Len(ledger') = Len(ledger) + 1
            /\ ledger'[Len(ledger')].memo = Memo(Answered.payload[1])
            /\ \E k \in 1..Len(readings') :
                 readings'[k] = Row(Answered.row[1], Answered.payload[1])]_vars

(* two ingestions for sensor 7 interleaved: the one that inserted second   *)
(* has been answered with success while the one that inserted first is     *)
(* still waiting for its submission                                        *)
C11_Witness ==
    /\ last /= None
    /\ Succeeded(last[1])
    /\ last[1].row = Some(2)
    /\ Len(tasks) = 1
    /\ tasks[1].kind = "ingest"
    /\ tasks[1].pc = "submit"
    /\ tasks[1].row = Some(1)
    /\ tasks[1].payload[1].sensor_id = last[1].payload[1].sensor_id
    /\ Len(readings) = 2
    /\ Len(ledger) = 1

(* a call of verify, and the transaction its signature names, if any *)
VerifyCall(t) == t.kind = "verify" /\ Finished(t)
Named(t) ==
    {k \in 1..Len(ledger) : t.signature /= None /\ ledger[k].signature = t.signature[1]}

(* C12: submit is fire-and-forget.  The step that answers an ingestion     *)
(* with success has sent the transaction and has not waited for the        *)
(* ledger to process it: the transaction is then accepted, neither         *)
(* confirmed nor rejected.  verify answers true only for a transaction     *)
(* that has been confirmed, so for one that is unconfirmed or rejected it  *)
(* does not, although the ingestion reported success.                      *)
C12_FireAndForget ==
    /\ [][Answers /\ Succeeded(Answered) =>
            /\ Answered.resp = Some(success)
            /\ SubSeq(ledger', 1, Len(ledger)) = ledger
            /\ Len(ledger') = Len(ledger) + 1
            /\ ledger'[Len(ledger')].status = "submitted"]_vars
    /\ [](\A t \in AllTasks :
            VerifyCall(t) /\ t.result = "Ok(true)" =>
                \E k \in Named(t) : ledger[k].status = "confirmed")

(* an ingestion was answered with success, its transaction was rejected,   *)
(* and verify for that reading and transaction returned false, while the   *)
(* transaction of another accepted ingestion is still unconfirmed          *)
C12_Witness ==
    /\ last /= None
    /\ VerifyCall(last[1])
    /\ last[1].result = "Ok(false)"
    /\ \E k \in Named(last[1]) :
         /\ ledger[k].memo = Memo(last[1].payload[1])
         /\ ledger[k].status = "rejected"
    /\ \E k \in 1..Len(ledger) : ledger[k].status = "submitted"
    /\ Len(readings) = 2

(* the transaction the call t names is confirmed and its log holds the     *)
(* memo of the reading the call was given                                  *)
MemoLogged(t) ==
    \E k \in Named(t) :
        /\ ledger[k].status = "confirmed"
        /\ ledger[k].memo = <<"pollution:v1:", reading_hash(t.payload[1])>>

(* C13: verify(reading, tx) returns true exactly when it fetched the       *)
(* record of tx and the log in it holds the memo of the reading's          *)
(* fingerprint; with the record fetched it returns false for every         *)
(* reading of another fingerprint and for a transaction without the memo   *)
(* line.  The call reads the ledger only: it changes neither the stored    *)
(* rows nor the ledger, and its answer does not depend on a row.           *)
C13_VerifyIffMemoLogged ==
    /\ [](\A t \in AllTasks :
            VerifyCall(t) =>
                /\ t.result = "Ok(true)" <=> (Outcome(t) = "fetched" /\ MemoLogged(t))
                /\ t.result = "Ok(false)" <=> (Outcome(t) = "fetched" /\ ~MemoLogged(t))
                /\ Outcome(t) = "fetched" =>
                     \E k \in Named(t) : ledger[k].status /= "submitted")
    /\ [][Answers /\ Answered.kind = "verify" =>
            readings' = readings /\ ledger' = ledger]_vars

(* verify returned true for a reading that was never stored: it has the    *)
(* fingerprint of the reading whose transaction was confirmed              *)
C13_Witness ==
    /\ last /= None
    /\ VerifyCall(last[1])
    /\ last[1].result = "Ok(true)"
    /\ MemoLogged(last[1])
    /\ readings /= <<>>
    /\ \A k \in 1..Len(readings) : Row(k, last[1].payload[1]) /= readings[k]

(* the columns insert_reading writes, with the id the store assigns *)
RowFields == {"id", "sensor_id", "timestamp", "co2", "temperature"}

(* C14: the stored readings are append-only: every step leaves each row    *)
(* that was stored where it was, with the field values it had, and at most *)
(* adds one row at the end; a row holds the reading's fields and its id,   *)
(* no anchor reference or status; the response to a successful ingestion   *)
(* carries no data, so no anchor reference is returned.                    *)
C14_AppendOnly ==
    /\ [][/\ Len(readings') \in {Len(readings), Len(readings) + 1}
          /\ SubSeq(readings', 1, Len(readings)) = readings]_vars
    /\ [](\A k \in 1..Len(readings) :
            /\ DOMAIN readings[k] = RowFields
            /\ readings[k].id = k)
    /\ [](\A t \in AllTasks : Succeeded(t) => t.resp[1].body = None)

(* a reading was ingested, its transaction confirmed and verified, a       *)
(* second reading was ingested after it: the first row is as it was        *)
(* written                                                                 *)
C14_Witness ==
    /\ last /= None
    /\ VerifyCall(last[1])
    /\ last[1].result = "Ok(true)"
    /\ Len(readings) = 2
    /\ Len(ledger) = 1
    /\ Len(tasks) = 1
    /\ tasks[1].row = Some(2)
    /\ readings[1] = Row(1, [sensor_id |-> 7, timestamp |-> 0, co2 |-> 5000,
                             temperature |-> 21300])

(* the ingestion of task t has reached its anchor stage *)
AtAnchorStage(t) ==
    /\ t.kind = "ingest"
    /\ \/ t.pc = "submit"
       \/ t.sends > 0
       \/ Logged(t, "sent") \/ Logged(t, "blockhash_err") \/ Logged(t, "send_err")

(* C15: a reading is anchored only after it is persisted.  An ingestion    *)
(* reaches its anchor stage only with its row inserted and stored; every   *)
(* transaction on the ledger carries the memo of a stored row and is sent  *)
(* by an ingestion that has inserted.  When insert_reading fails the       *)
(* caller gets the internal error, no transaction is sent for the request, *)
(* and the failing step leaves the ledger and the rows as they were.       *)
C15_AnchorAfterPersist ==
    /\ [](\A t \in AllTasks :
            AtAnchorStage(t) =>
                /\ Logged(t, "inserted")
                /\ t.row /= None
                /\ \E k \in 1..Len(readings) : readings[k] = Row(t.row[1], t.payload[1]))
    /\ [](\A k \in 1..Len(ledger) :
            \E j \in 1..Len(readings) : ledger[k].memo = Memo(readings[j]))
    /\ [][Len(ledger') > Len(ledger) =>
            \E i \in 1..Len(tasks) :
                /\ tasks[i].pc = "submit"
                /\ tasks[i].row /= None
                /\ ledger' = Append(ledger, Transaction(Len(ledger) + 1,
                                                        tasks[i].payload[1]))]_vars
    /\ [](\A t \in AllTasks :
            Logged(t, "insert_err") =>
                /\ Finished(t)
                /\ t.resp = Some(internal_error)
                /\ t.row = None
                /\ t.sends = 0)
    /\ [][Answers /\ Answered.kind = "ingest" /\ Outcome(Answered) = "insert_err" =>
            ledger' = ledger /\ readings' = readings]_vars

(* after one reading was stored and anchored, the insert of a second       *)
(* ingestion failed: status 500, still one row and one transaction         *)
C15_Witness ==
    /\ last /= None
    /\ last[1].kind = "ingest"
    /\ Outcome(last[1]) = "insert_err"
    /\ Status(last[1]) = 500
    /\ Len(readings) = 1
    /\ Len(ledger) = 1
    /\ tasks = <<>>

(* the stored rows and the ledger's transactions of fingerprint memo m *)
RowsOf(m) == {j \in 1..Len(readings) : Memo(readings[j]) = m}
TransactionsOf(m) == {k \in 1..Len(ledger) : ledger[k].memo = m}

(* the ingestions in flight that have inserted a reading of memo m and     *)
(* not yet submitted it                                                    *)
PendingOf(m) ==
    {i \in 1..Len(tasks) :
        tasks[i].kind = "ingest" /\ tasks[i].pc = "submit" /\ Memo(tasks[i].payload[1]) = m}

(* C16: equal readings are not deduplicated.  The step that answers an     *)
(* ingestion with success appends a transaction of its own with the        *)
(* reading's memo, whatever the ledger already holds, and the request has  *)
(* a row of its own; so for every fingerprint there are at least as many   *)
(* rows as transactions sent and submissions pending, and n successful     *)
(* ingestions of one reading leave n rows and n transactions of that       *)
(* fingerprint.                                                            *)
C16_DuplicatesKept ==
    /\ [](\A k \in 1..Len(ledger) :
            Cardinality(TransactionsOf(ledger[k].memo))
                + Cardinality(PendingOf(ledger[k].memo))
                    <= Cardinality(RowsOf(ledger[k].memo)))
    /\ [](\A i, j \in 1..Len(readings) : i /= j => readings[i].id /= readings[j].id)
    /\ [][Answers /\ Succeeded(Answered) =>
            /\ ledger' = Append(ledger, Transaction(Len(ledger) + 1, Answered.payload[1]))
            /\ Cardinality({j \in 1..Len(readings') :
                              readings'[j] = Row(Answered.row[1], Answered.payload[1])}) = 1
            /\ \A i \in 1..Len(tasks') : tasks'[i].row /= Answered.row]_vars

(* the same reading was ingested twice with success: two rows that differ  *)
(* in their id only, two transactions with the same memo                   *)
C16_Witness ==
    /\ last /= None
    /\ Succeeded(last[1])
    /\ last[1].row = Some(2)
    /\ Len(readings) = 2
    /\ readings[1] = Row(1, last[1].payload[1])
    /\ readings[2] = Row(2, last[1].payload[1])
    /\ Len(ledger) = 2
    /\ ledger[1].memo = ledger[2].memo
    /\ ledger[1].memo = Memo(last[1].payload[1])

(* the results of the anchor stage in the log of task t *)
AnchorEvents(t) ==
    {n \in 1..Len(t.log) : t.log[n] \in {"blockhash_err", "send_err", "sent"}}

(* C17: a failed submission is not retried.  An ingestion goes through the *)
(* anchor stage at most once and calls send_transaction at most once: not  *)
(* at all when the blockhash fetch fails, once when the send fails or      *)
(* succeeds.  Either failure ends the request with the internal error,     *)
(* and the failing step adds no transaction to the ledger.                 *)
C17_NoRetry ==
    /\ [](\A t \in AllTasks :
            t.kind = "ingest" =>
                /\ t.sends <= 1
                /\ Cardinality(AnchorEvents(t)) <= 1
                /\ AnchorEvents(t) /= {} => Finished(t)
                /\ Logged(t, "blockhash_err") =>
                     t.sends = 0 /\ t.resp = Some(internal_error)
                /\ Logged(t, "send_err") =>
                     t.sends = 1 /\ t.resp = Some(internal_error)
                /\ Logged(t, "sent") => t.sends = 1 /\ t.resp = Some(success))
    /\ [][Answers /\ AnchorFailed(Answered) => ledger' = ledger]_vars

(* after one reading was anchored, the send of a second ingestion failed:  *)
(* one send_transaction call, status 500, two rows and one transaction     *)
C17_Witness ==
    /\ last /= None
    /\ AnchorFailed(last[1])
    /\ Outcome(last[1]) = "send_err"
    /\ last[1].sends = 1
    /\ Status(last[1]) = 500
    /\ Len(readings) = 2
    /\ Len(ledger) = 1

(* the windows C18 names, in seconds *)
C18_Window(range) ==
    CASE range = "24h" -> 24 * 3600
      [] range = "7d"  -> 7 * 24 * 3600
      [] range = "30d" -> 30 * 24 * 3600
      [] range = "90d" -> 90 * 24 * 3600
      [] range = "all" -> 180 * 24 * 3600

(* C18: to_cutoff_time maps '24h', '7d', '30d', '90d' to now minus 24      *)
(* hours, 7, 30, 90 days and 'all' to now minus 180 days; a query without  *)
(* selector gets the cutoff of '24h'; no cutoff is more than 180 days      *)
(* before now.                                                             *)
C18_CutoffTable ==
    \A t \in AllTasks :
        t.kind = "cutoff" =>
            /\ t.cutoff /= None
            /\ t.range /= "none" => t.cutoff[1] = t.at - C18_Window(t.range)
            /\ t.range = "none" => t.cutoff[1] = t.at - C18_Window("24h")
            /\ t.cutoff[1] >= t.at - 180 * 24 * 3600
            /\ t.cutoff[1] < t.at

C18_Witness ==
    /\ last /= None
    /\ last[1].kind = "cutoff"
    /\ last[1].range = "all"
    /\ last[1].at = MaxDays * DayS + MaxDays * 3601
    /\ last[1].cutoff = Some(last[1].at - 15552000)

(* the readings query of fetch t was answered by the store *)
Fetched(t) == t.kind = "fetch" /\ Finished(t) /\ Outcome(t) = "fetched"
Body(t) == t.resp[1].body[1]

(* C19: the readings query, run for subject u and sensor s with cutoff c,  *)
(* returns exactly the rows stored at that moment that are of sensor s,    *)
(* with s owned by u, and stamped at or after c, each once, oldest first;  *)
(* c is the cutoff of the request's range at the time of the query.  So a  *)
(* row inserted before the query for s and stamped at or after c is in     *)
(* the answer, and no row of another sensor or older than c is.            *)
C19_FetchExact ==
    /\ [][Answers /\ Fetched(Answered) =>
            LET rows == Body(Answered)
                s == Answered.sensor
                u == Answered.claims[1].sub
                c == Answered.cutoff[1]
            IN /\ c = now - 24 * 3600
               /\ {rows[n] : n \in DOMAIN rows} =
                     {readings[k] : k \in {j \in 1..Len(readings) :
                         /\ readings[j].sensor_id = s
                         /\ sensors[s] = Some(u)
                         /\ readings[j].timestamp >= c}}
               /\ \A m, n \in DOMAIN rows : m /= n => rows[m] /= rows[n]
               /\ \A m, n \in DOMAIN rows :
                     m < n => rows[m].timestamp <= rows[n].timestamp]_vars
    /\ [](\A t \in AllTasks :
            Fetched(t) =>
                \A n \in DOMAIN Body(t) :
                    /\ Body(t)[n].sensor_id = t.sensor
                    /\ Body(t)[n].timestamp >= t.cutoff[1]
                    /\ \E k \in 1..Len(readings) : readings[k] = Body(t)[n])

(* alice fetches sensor 7 after a reading for it was ingested: the answer  *)
(* starts with the row stored second (the older one), and holds the row    *)
(* stored first and the row just ingested                                  *)
C19_Witness ==
    /\ last /= None
    /\ Fetched(last[1])
    /\ last[1].claims[1].sub = "alice"
    /\ last[1].sensor = 7
    /\ Len(readings) = InitRows + 1
    /\ DOMAIN Body(last[1]) = 1..3
    /\ Body(last[1])[1] = readings[2]
    /\ \E n \in 2..3 : Body(last[1])[n] = readings[Len(readings)]
    /\ Len(ledger) = 1

(* the login of task t succeeded; the token in its response *)
LoggedIn(t) == t.kind = "login" /\ Finished(t) /\ Outcome(t) = "valid"
IssuedTo(t) == t.resp[1].body[1].token

(* the token of fetch t was issued by this service at the instant the      *)
(* middleware checked it                                                   *)
PresentedAtIssuance(t) ==
    /\ HasToken(t)
    /\ Token(t) \in issued
    /\ Token(t).claims.exp = t.at + 60 * 60

(* C20: the token a successful login returns is issued for the form's      *)
(* username: sub is that username, role is 'user' and exp is the time of   *)
(* issuance plus one hour.  Presented to verify_jwt at the instant it was  *)
(* issued, it is accepted, and the claims attached to the request are the  *)
(* token's, with the same sub.                                             *)
C20_IssuedTokenAccepted ==
    /\ [][Answers /\ LoggedIn(Answered) =>
            /\ IssuedTo(Answered).claims.sub = Answered.form[1].username
            /\ IssuedTo(Answered).claims.role = "user"
            /\ IssuedTo(Answered).claims.exp = now + 60 * 60
            /\ IssuedTo(Answered).key = JWT_SECRET
            /\ IssuedTo(Answered) \in issued']_vars
    /\ [](\A t \in AllTasks :
            PresentedAtIssuance(t) =>
                /\ Accepted(t)
                /\ t.claims = Some(Token(t).claims)
                /\ t.claims[1].sub = Token(t).claims.sub
                /\ t.claims[1].role = "user")

(* alice logged in at the second instant and fetched with the token at     *)
(* once: the request got through the middleware with sub alice             *)
C20_Witness ==
    /\ last /= None
    /\ PresentedAtIssuance(last[1])
    /\ last[1].at = Instants[2]
    /\ Accepted(last[1])
    /\ last[1].claims[1].sub = "alice"
    /\ Fetched(last[1])

-----------------------------------------------------------------------------

(* |v| lies within half a hundredth of h hundredths: v, in thousandths,    *)
(* is printed with two decimals as h                                       *)
C21_RendersAs(v, h) ==
    LET a == IF v < 0 THEN -v ELSE v
    IN 10 * h - 5 < a /\ a < 10 * h + 5

(* v and w are printed alike with two decimals: same sign, same hundredth *)
C21_SameText(v, w) ==
    /\ (v < 0) = (w < 0)
    /\ \E h \in 0..1000 : C21_RendersAs(v, h) /\ C21_RendersAs(w, h)

(* the calls of reading_hash in the state *)
HashCalls == {t \in AllTasks : t.kind = "hash"}

(* C21: reading_hash depends on the canonical encoding only.  Two calls,   *)
(* whenever made, return the same digest exactly when their readings have  *)
(* the same sensor_id, the same timestamp in whole seconds, and co2 and    *)
(* temperature that print alike with two decimals; a difference in         *)
(* sensor_id, in the second, or in a printed co2 or temperature gives      *)
(* another digest, a difference below the second or within the rounding    *)
(* does not.  The memo submit builds for a reading is the memo verify      *)
(* expects for it.                                                         *)
C21_FingerprintCanonical ==
    /\ \A a, b \in HashCalls :
           a.hash = b.hash <=>
               /\ a.payload[1].sensor_id = b.payload[1].sensor_id
               /\ a.payload[1].timestamp = b.payload[1].timestamp
               /\ C21_SameText(a.payload[1].co2, b.payload[1].co2)
               /\ C21_SameText(a.payload[1].temperature, b.payload[1].temperature)
    /\ \A t \in HashCalls :
           /\ t.hash /= None
           /\ Memo(t.payload[1]) = expected_memo(t.payload[1])
           /\ Memo(t.payload[1]) = <<"pollution:v1:", t.hash[1]>>

(* two calls at different times, for readings that differ in the           *)
(* milliseconds and in co2 within the rounding (5.001 and 5.004), returned *)
(* the same digest                                                         *)
C21_Witness ==
    /\ Len(tasks) = 1
    /\ last /= None
    /\ tasks[1].kind = "hash"
    /\ last[1].kind = "hash"
    /\ tasks[1].at < last[1].at
    /\ tasks[1].payload[1].subsec /= last[1].payload[1].subsec
    /\ tasks[1].payload[1].co2 = 5001
    /\ last[1].payload[1].co2 = 5004
    /\ tasks[1].hash = last[1].hash

-----------------------------------------------------------------------------

(* the credential stored for the username of form f is a hash made by      *)
(* register_user for f's password                                          *)
C22_Matches(f) ==
    /\ users[f.username] /= None
    /\ users[f.username][1].wellformed
    /\ users[f.username][1].pw = f.password

(* C22: a successful registration of (u, p) stores for u a credential of   *)
(* p, and a stored credential is never replaced.  A login the store        *)
(* answers returns {token, username u, role} exactly when the credential   *)
(* stored for u is a well-formed hash of the password given; the token is  *)
(* for subject u and is the only one issued by the step.  Every other      *)
(* login - wrong password, username never registered, malformed stored     *)
(* hash - gets the one response unauthorized("Invalid credentials") and    *)
(* issues no token.                                                        *)
C22_LoginIffValid ==
    /\ [][Answers /\ Registration(Answered) /\ Outcome(Answered) = "ok" =>
            /\ users[Answered.form[1].username] = None
            /\ users'[Answered.form[1].username] /= None
            /\ users'[Answered.form[1].username][1].wellformed
            /\ users'[Answered.form[1].username][1].pw = Answered.form[1].password]_vars
    /\ [][\A u \in Users : users[u] /= None => users'[u] = users[u]]_vars
    /\ [][Answers /\ Answered.kind = "login" /\ Outcome(Answered) /= "login_err" =>
            /\ LoggedIn(Answered) <=> C22_Matches(Answered.form[1])
            /\ LoggedIn(Answered) =>
                 /\ Status(Answered) = 200
                 /\ Answered.resp[1].body[1].username = Answered.form[1].username
                 /\ Answered.resp[1].body[1].role = "user"
                 /\ IssuedTo(Answered).claims.sub = Answered.form[1].username
                 /\ issued' = issued \cup {IssuedTo(Answered)}
            /\ ~LoggedIn(Answered) =>
                 /\ Answered.resp = Some(unauthorized("Invalid credentials"))
                 /\ issued' = issued]_vars
    /\ [][Answers /\ Answered.kind = "login" /\ Outcome(Answered) = "login_err" =>
            issued' = issued]_vars

(* bob registered and logged in; then a login for alice, whose stored hash *)
(* is malformed, with the password the damaged column holds: unauthorized, *)
(* and bob's token is still the only one issued                            *)
C22_Witness ==
    /\ last /= None
    /\ last[1].kind = "login"
    /\ last[1].form[1].username = "alice"
    /\ users["alice"] = Some(MalformedHash)
    /\ last[1].form[1].password = MalformedHash.pw
    /\ last[1].resp = Some(unauthorized("Invalid credentials"))
    /\ users["bob"] /= None
    /\ Cardinality(issued) = 1
    /\ \A tok \in issued : tok.claims.sub = "bob"

-----------------------------------------------------------------------------

(* the rows of sensor s stored now and stamped at or after c *)
C23_RowsInRange(s, c) ==
    {k \in 1..Len(readings) : readings[k].sensor_id = s /\ readings[k].timestamp >= c}

(* C23: nothing is locked between the ownership check and the readings     *)
(* query: while a fetch waits for its query the sensor can change hands.   *)
(* A fetch gets to its query only after the check found the caller the     *)
(* owner; if the caller does not own the sensor any more when the query    *)
(* runs, the answer holds no row, and every row an answer holds is of the  *)
(* sensor asked for, which the caller owns at the time of the query.       *)
C23_NoRowsAfterTransfer ==
    /\ [](\A i \in 1..Len(tasks) :
            tasks[i].pc = "fetch_readings" =>
                /\ tasks[i].owner = Some(tasks[i].claims[1].sub)
                /\ ENABLED TransferSensor
                /\ ENABLED fetch_reading_fetch_readings(i))
    /\ [][Answers /\ Fetched(Answered) =>
            /\ Answered.owner = Some(Answered.claims[1].sub)
            /\ sensors[Answered.sensor] /= Some(Answered.claims[1].sub) =>
                 DOMAIN Body(Answered) = {}
            /\ DOMAIN Body(Answered) /= {} =>
                 /\ sensors[Answered.sensor] = Some(Answered.claims[1].sub)
                 /\ \A n \in DOMAIN Body(Answered) :
                      Body(Answered)[n].sensor_id = Answered.sensor]_vars

(* alice passed the ownership check for sensor 7, the sensor went to bob,  *)
(* and her query returned nothing although rows of sensor 7 within the     *)
(* range are stored                                                        *)
C23_Witness ==
    /\ last /= None
    /\ Fetched(last[1])
    /\ last[1].sensor = 7
    /\ last[1].claims[1].sub = "alice"
    /\ last[1].owner = Some("alice")
    /\ sensors[7] = Some("bob")
    /\ DOMAIN Body(last[1]) = {}
    /\ C23_RowsInRange(7, last[1].cutoff[1]) /= {}
    /\ received = 2

-----------------------------------------------------------------------------

(* the three outcomes of an ingestion, by the envelope it is answered with *)
C24_Outcomes(t) ==
    {o \in {"accepted", "rejected", "server error"} :
        \/ o = "accepted" /\ t.resp = Some(success)
        \/ o = "rejected" /\ t.resp /= None /\ Status(t) = 400
        \/ o = "server error" /\ t.resp = Some(internal_error)}

(* C24: an ingestion in flight has no outcome yet, and the step that ends  *)
(* it gives it exactly one of accepted, rejected and server error.  It is  *)
(* accepted only after, in this order, the payload was found valid, the    *)
(* sensor was found registered, a row of the reading was inserted and the  *)
(* ledger RPC took a transaction with the reading's memo, which is the     *)
(* last thing the handler does.  So at any time there are at most as many  *)
(* accepted ingestions as transactions the ledger RPC took, and at most as *)
(* many of these as stored rows.                                           *)
C24_OneOutcomeInOrder ==
    /\ [](accepted <= Len(ledger) /\ Len(ledger) <= Len(readings))
    /\ [](\A i \in 1..Len(tasks) :
            tasks[i].kind = "ingest" => C24_Outcomes(tasks[i]) = {})
    /\ [][Answers /\ Answered.kind = "ingest" =>
            /\ Cardinality(C24_Outcomes(Answered)) = 1
            /\ accepted' = accepted + (IF Succeeded(Answered) THEN 1 ELSE 0)
            /\ Succeeded(Answered) =>
                 /\ Answered.log = <<"valid", "registered", "inserted", "sent">>
                 /\ validate_reading(Answered.payload[1]) = None
                 /\ Answered.row /= None
                 /\ \E k \in 1..Len(readings) :
                      readings[k] = Row(Answered.row[1], Answered.payload[1])
                 /\ Answered.sends = 1
                 /\ ledger' = Append(ledger,
                                Transaction(Len(ledger) + 1, Answered.payload[1]))
                 /\ ledger'[Len(ledger')].memo = Memo(Answered.payload[1])]_vars

(* two readings were stored, the ledger RPC refused the transaction of the *)
(* first and took that of the second: one ingestion accepted, one          *)
(* transaction, two rows                                                   *)
C24_Witness ==
    /\ last /= None
    /\ last[1].kind = "ingest"
    /\ C24_Outcomes(last[1]) = {"accepted"}
    /\ accepted = 1
    /\ Len(ledger) = 1
    /\ Len(readings) = 2
    /\ tasks = <<>>

====
